---- MODULE Spec2Model ----
(***************************************************************************)
(* Model of the two checkers of indiana-shirt-monitor:                     *)
(*   store_monitor.py  the catalog novelty detector and its snapshot file  *)
(*   monitor.py        the page/variant checker                            *)
(* Strings are sequences of characters (naturals), so that `in` on a       *)
(* string, lower() and title() are computed and not assumed.               *)
(***************************************************************************)
EXTENDS Integers, Sequences, FiniteSets, TLC

VARIABLES
    listing,         \* titles the store page currently shows (upstream)
    file,            \* content of .store_monitor_cache.json
    pc,              \* position of each store_monitor invocation
    topic,           \* main: topic
    product_titles,  \* main: product_titles
    last_seen,       \* main: last_seen
    new_titles,      \* main: new_titles
    idx,             \* main: position of the for loop in new_titles
    sent,            \* messages passed to send_notification by the invocation
    fetched,         \* whether the listing GET of the invocation succeeded
    wrote,           \* outcome of the cache write: "none", "ok", "failed"
    raised,          \* whether the invocation ended in an uncaught exception
    delivered,       \* whether some send_notification of the run returned True
    call,            \* observable effects of the last send_notification call
    fileBefore,      \* file content when the last invocation ended (history)
    hist,            \* facts about completed runs on the unchanged listing
    runs,            \* number of invocations started
    changes,         \* number of times the upstream listing changed
    m_pc,            \* monitor.py: position of main
    m_env,           \* monitor.py: state_keyword, size_keyword, ntfy_topic
    m_coll,          \* monitor.py: response to the collection GET
    m_prod,          \* monitor.py: response to the product JSON GET
    m_url,           \* monitor.py: product_url
    m_available,     \* monitor.py: available
    m_sent,          \* monitor.py: messages passed to send_notification
    m_raised         \* monitor.py: main ended in an uncaught exception

storeVars == <<listing, file, pc, topic, product_titles, last_seen, new_titles,
               idx, sent, fetched, wrote, raised, delivered, fileBefore, hist,
               runs, changes>>
monitorVars == <<m_pc, m_env, m_coll, m_prod, m_url, m_available, m_sent, m_raised>>
vars == <<storeVars, call, monitorVars>>

-----------------------------------------------------------------------------
(* Bounds of the model *)
MaxLen == 2        \* longest enumerated short listing
MaxSnap == 1       \* longest enumerated initial snapshot array
MaxRuns == 3       \* invocations of store_monitor per behaviour
MaxChanges == 1    \* upstream listing changes per behaviour
Overflow == 10     \* titles beyond the cache limit in the longest listing
RaceLen == 1       \* longest listing and snapshot of the overlapping invocations
RaceRuns == 2      \* overlapping invocations per behaviour
MaxLinks == 2      \* links of the collection page
MaxVariants == 2   \* variants of the product JSON

(* Program constant: product_titles[:50] *)
CacheLimit == 50

Procs == {1, 2}
SerialProcs == {1}

-----------------------------------------------------------------------------
(* Strings and Python values *)

NoneVal == "<None>"

(* an environment variable: unset, or set to a value *)
EnvVals == {[set |-> FALSE, val |-> ""], [set |-> TRUE, val |-> ""],
            [set |-> TRUE, val |-> "t"]}

Truthy(v) == v \notin {NoneVal, ""}

GetEnv(var, default) == IF var.set THEN var.val ELSE default

PyOr(a, b) == IF Truthy(a) THEN a ELSE b

ShortTitles == {<<1>>, <<2>>, <<1, 2>>}

RECURSIVE SeqsUpTo(_, _)
SeqsUpTo(S, n) ==
    IF n = 0 THEN {<<>>}
    ELSE LET shorter == SeqsUpTo(S, n - 1)
         IN  shorter \cup {Append(s, x) : s \in {t \in shorter : Len(t) = n - 1}, x \in S}

DistinctListing(n) == [i \in 1..n |-> <<i>>]
RepeatListing(n) == [i \in 1..n |-> IF i > CacheLimit THEN <<1>> ELSE <<i>>]

Listings ==
    SeqsUpTo(ShortTitles, MaxLen)
      \cup {DistinctListing(CacheLimit), DistinctListing(CacheLimit + Overflow),
            RepeatListing(CacheLimit + 1)}

(* Content of the cache file, and values json.load returns *)
JAbsent == [kind |-> "absent", items |-> <<>>, text |-> <<>>]
JInvalid == [kind |-> "invalid", items |-> <<>>, text |-> <<>>]
JScalar == [kind |-> "scalar", items |-> <<>>, text |-> <<>>]
JArray(titles) == [kind |-> "array", items |-> titles, text |-> <<>>]
JString(s) == [kind |-> "string", items |-> <<>>, text |-> s]
JObject(keys) == [kind |-> "object", items |-> keys, text |-> <<>>]

InitialFiles ==
    {JAbsent, JInvalid, JScalar, JString(<<1, 2>>), JObject(<< <<1>> >>)}
      \cup {JArray(s) : s \in SeqsUpTo(ShortTitles, MaxSnap)}

IsSubstring(t, s) ==
    \E k \in 0..(Len(s) - Len(t)) : SubSeq(s, k + 1, k + Len(t)) = t

(* `t in last_seen` of Python, by the type json.load returned *)
Contains(seen, t) ==
    CASE seen.kind = "array"  -> \E k \in 1..Len(seen.items) : seen.items[k] = t
      [] seen.kind = "object" -> \E k \in 1..Len(seen.items) : seen.items[k] = t
      [] seen.kind = "string" -> IsSubstring(t, seen.text)
      [] OTHER -> FALSE

(* `in` raises TypeError on a number, a boolean or None *)
MembershipRaises(seen) == seen.kind = "scalar"

(* mutant: the cache file is never read *)
LoadCacheIgnored(f) == JArray(<<>>)

LoadCache(f) == IF f.kind \in {"absent", "invalid"} THEN JArray(<<>>) ELSE f

RECURSIVE Dedup(_)
Dedup(s) ==
    IF s = <<>> THEN <<>>
    ELSE LET r == Dedup(SubSeq(s, 1, Len(s) - 1))
         IN  IF \E k \in 1..Len(r) : r[k] = s[Len(s)] THEN r ELSE Append(r, s[Len(s)])

(* mutant: a set difference, each new title once *)
NewTitlesSetDifference(titles, seen) ==
    Dedup(SelectSeq(titles, LAMBDA t : ~Contains(seen, t)))

NewTitles(titles, seen) == SelectSeq(titles, LAMBDA t : ~Contains(seen, t))

Take(s, n) == SubSeq(s, 1, IF Len(s) < n THEN Len(s) ELSE n)

(* mutant: only the new titles are kept *)
CacheContentNewOnly(titles, new) == JArray(Take(new, CacheLimit))

(* mutant: the list is written without the [:50] *)
CacheContentUntruncated(titles, new) == JArray(titles)

CacheContent(titles, new) == JArray(Take(titles, CacheLimit))

AfterFetch(titles) == IF titles = <<>> THEN "done" ELSE "load"

(* mutant: the cache is rewritten when nothing is new *)
AfterCompareAlwaysWrite(new) == IF new = <<>> THEN "write" ELSE "notify"

AfterCompare(new) == IF new = <<>> THEN "done" ELSE "notify"

(* mutant: the cache is written only after a delivery *)
AfterLoopIfDelivered(anyDelivered) == IF anyDelivered THEN "write" ELSE "done"

(* the cache write follows the loop whatever send_notification returned *)
AfterLoop(anyDelivered) == "write"

StoreMessage(title) == [tmpl |-> "New product added: ", title |-> title]

(* Results of the POST to ntfy.sh *)
Deliveries == {"ok", "http_error", "network_error"}

NoCall == [made |-> FALSE, prog |-> "none", topic |-> NoneVal, outcome |-> "none",
           posts |-> 0, stdout |-> FALSE, stderr |-> "none", ret |-> "None"]

(* store_monitor.send_notification *)
StoreSend(tp, outcome) ==
    IF ~Truthy(tp)
    THEN [made |-> TRUE, prog |-> "store", topic |-> tp, outcome |-> "none",
          posts |-> 0, stdout |-> FALSE, stderr |-> "skipped", ret |-> "False"]
    ELSE [made |-> TRUE, prog |-> "store", topic |-> tp, outcome |-> outcome,
          posts |-> 1, stdout |-> FALSE,
          stderr |-> IF outcome = "ok" THEN "none" ELSE "error",
          ret |-> IF outcome = "ok" THEN "True" ELSE "False"]

(* what is remembered of the completed runs on the listing as it is now:
   valid/wrote/sent describe the last completed run; notified: the titles
   completed runs notified; undelivered: titles within the cache limit that a
   run notified without any delivery before it wrote the cache; intact: no
   cache write failed since; failed: some cache write failed; overlapped: two
   invocations ran at once; fromAbsent: the first run found no cache file *)
NoHist == [valid |-> FALSE, wrote |-> "none", sent |-> <<>>, notified |-> {},
           undelivered |-> {}, intact |-> TRUE, failed |-> FALSE,
           overlapped |-> FALSE, fromAbsent |-> FALSE]

ResetHist(h) == [NoHist EXCEPT !.overlapped = h.overlapped, !.fromAbsent = h.fromAbsent]

Titles(msgs) == [k \in 1..Len(msgs) |-> msgs[k].title]
Range(s) == {s[k] : k \in 1..Len(s)}

-----------------------------------------------------------------------------
(* monitor.py: strings, responses and the two lookups *)

(* characters: 1, 2 lower-case letters, 11, 12 their upper case, 0 a space,
   9 a slash; 7 stands for "https://store.dead.net" *)
LowerChar(c) == IF c \in {11, 12} THEN c - 10 ELSE c
UpperChar(c) == IF c \in {1, 2} THEN c + 10 ELSE c
IsLetter(c) == c \in {1, 2, 11, 12}

Lower(str) == [k \in 1..Len(str) |-> LowerChar(str[k])]

(* str.title(): a letter is upper case after a non-letter, lower case after a letter *)
TitleCase(str) ==
    [k \in 1..Len(str) |->
        IF k = 1 \/ ~IsLetter(str[k - 1]) THEN UpperChar(str[k]) ELSE LowerChar(str[k])]

DefaultState == <<1, 2, 1>>
DefaultSize == <<2, 1>>

KeywordEnvVals ==
    {[set |-> FALSE, val |-> <<>>], [set |-> TRUE, val |-> <<1>>],
     [set |-> TRUE, val |-> <<11, 0, 2>>]}

LinkTexts == {<<1>>, <<2, 11, 0, 12>>, <<11, 2, 1>>}
Hrefs == {<<>>, <<9, 1>>, <<7, 9, 2, 9>>}
Links == [text : LinkTexts, href : Hrefs]

NoResponse == [ok |-> FALSE, shape |-> "none", links |-> <<>>, variants |-> <<>>]

CollectionResponses ==
    {[ok |-> FALSE, shape |-> "error", links |-> <<>>, variants |-> <<>>]}
      \cup {[ok |-> TRUE, shape |-> "html", links |-> l, variants |-> <<>>] :
               l \in SeqsUpTo(Links, MaxLinks)}

(* a variant of the product JSON: not an object, or an object whose title is
   a string, absent or null and whose available is true, false, absent or null *)
Variants ==
    {[kind |-> "nondict", title |-> <<>>, titleKind |-> "missing", available |-> "missing"]}
      \cup [kind : {"dict"}, title : {<<2, 1>>}, titleKind : {"str"},
            available : {"True", "False", "missing", "null"}]
      \cup [kind : {"dict"}, title : {<<12, 0, 1>>}, titleKind : {"str"},
            available : {"True", "False"}]
      \cup [kind : {"dict"}, title : {<<>>}, titleKind : {"missing", "null"},
            available : {"True"}]

(* the response to the product JSON GET: a network or HTTP error, a body that
   is not JSON, JSON that is not an object, an object whose "product" is
   absent, null, empty or not an object, a product whose "variants" is
   absent, null or a list *)
ProductShapes ==
    {"error", "not_json", "nonobject", "no_product", "product_null", "product_empty",
     "product_nondict", "variants_missing", "variants_null"}

ProductResponses ==
    {[ok |-> sh \notin {"error"}, shape |-> sh, links |-> <<>>, variants |-> <<>>] :
        sh \in ProductShapes}
      \cup {[ok |-> TRUE, shape |-> "variants", links |-> <<>>, variants |-> v] :
               v \in SeqsUpTo(Variants, MaxVariants)}

NoUrl == [none |-> TRUE, url |-> <<>>]

(* find_product_page *)
RECURSIVE FirstLink(_, _, _)
FirstLink(links, k, state_keyword) ==
    IF k > Len(links) THEN NoUrl
    ELSE IF IsSubstring(Lower(state_keyword), Lower(links[k].text))
         THEN LET href == links[k].href
              IN  [none |-> FALSE,
                   url |-> IF href # <<>> /\ href[1] = 9 THEN <<7>> \o href ELSE href]
         ELSE FirstLink(links, k + 1, state_keyword)

FindProductPage(resp, state_keyword) ==
    IF ~resp.ok THEN NoUrl ELSE FirstLink(resp.links, 1, state_keyword)

(* `not product_url`: None and the empty string *)
NotUrl(u) == u.none \/ u.url = <<>>

(* the for loop of check_variant_available: "raise", or the value returned *)
RECURSIVE FirstVariant(_, _, _)
FirstVariant(variants, k, size_keyword) ==
    IF k > Len(variants) THEN "None"
    ELSE LET v == variants[k]
         IN  IF v.kind # "dict" \/ v.titleKind = "null" THEN "raise"
             ELSE IF IsSubstring(Lower(size_keyword), Lower(v.title))
                  THEN (IF v.available = "missing" THEN "False"
                        ELSE IF v.available = "null" THEN "None" ELSE v.available)
                  ELSE FirstVariant(variants, k + 1, size_keyword)

(* check_variant_available *)
CheckVariantAvailable(resp, size_keyword) ==
    CASE resp.shape \in {"error", "not_json"} -> "None"
      [] resp.shape \in {"nonobject", "product_nondict", "variants_null"} -> "raise"
      [] resp.shape \in {"no_product", "product_null", "product_empty",
                         "variants_missing"} -> "None"
      [] OTHER -> FirstVariant(resp.variants, 1, size_keyword)

(* monitor.send_notification *)
MonitorSend(tp, outcome) ==
    IF ~Truthy(tp)
    THEN [made |-> TRUE, prog |-> "monitor", topic |-> tp, outcome |-> "none",
          posts |-> 0, stdout |-> TRUE, stderr |-> "none", ret |-> "None"]
    ELSE [made |-> TRUE, prog |-> "monitor", topic |-> tp, outcome |-> outcome,
          posts |-> 1, stdout |-> FALSE,
          stderr |-> IF outcome = "network_error" THEN "error" ELSE "none",
          ret |-> "None"]

PageMissingMessage(state_keyword) ==
    [tmpl |-> " shirt page is not yet available.", state |-> TitleCase(state_keyword),
     size |-> <<>>, url |-> <<>>]

VariantMessage(available, state_keyword, size_keyword, product_url) ==
    [tmpl |-> CASE available = "None" -> " product found, but the  variant is missing."
                [] available = "True" -> " is available! "
                [] OTHER -> " is currently sold out. ",
     state |-> TitleCase(state_keyword), size |-> TitleCase(size_keyword),
     url |-> IF available = "None" THEN <<>> ELSE product_url]

-----------------------------------------------------------------------------
(* store_monitor.py *)

InitStore ==
    /\ listing \in Listings
    /\ file \in InitialFiles
    /\ pc = [p \in Procs |-> "idle"]
    /\ topic = [p \in Procs |-> NoneVal]
    /\ product_titles = [p \in Procs |-> <<>>]
    /\ last_seen = [p \in Procs |-> JArray(<<>>)]
    /\ new_titles = [p \in Procs |-> <<>>]
    /\ idx = [p \in Procs |-> 1]
    /\ sent = [p \in Procs |-> <<>>]
    /\ fetched = [p \in Procs |-> FALSE]
    /\ wrote = [p \in Procs |-> "none"]
    /\ raised = [p \in Procs |-> FALSE]
    /\ delivered = [p \in Procs |-> FALSE]
    /\ fileBefore = file
    /\ hist = [NoHist EXCEPT !.fromAbsent = (file = JAbsent)]
    /\ runs = 0
    /\ changes = 0

IdleMonitor ==
    /\ m_pc = "off"
    /\ m_env = [state |-> <<>>, size |-> <<>>, topic |-> NoneVal]
    /\ m_coll = NoResponse
    /\ m_prod = NoResponse
    /\ m_url = NoUrl
    /\ m_available = "None"
    /\ m_sent = <<>>
    /\ m_raised = FALSE

Init == InitStore /\ call = NoCall /\ IdleMonitor

(* main, lines 60-63: the topic, the listing GET, the early return *)
Fetch(p, ok, store_env, topic_env) ==
    /\ pc[p] = "idle"
    /\ runs < MaxRuns
    /\ runs' = runs + 1
    /\ topic' = [topic EXCEPT ![p] = PyOr(GetEnv(store_env, NoneVal),
                                         GetEnv(topic_env, NoneVal))]
    /\ fetched' = [fetched EXCEPT ![p] = ok]
    /\ LET titles == IF ok THEN listing ELSE <<>>
       IN  /\ product_titles' = [product_titles EXCEPT ![p] = titles]
           /\ pc' = [pc EXCEPT ![p] = AfterFetch(titles)]
    /\ UNCHANGED <<listing, file, last_seen, new_titles, idx, sent, wrote, raised,
                   delivered, call, fileBefore, changes, monitorVars>>

(* an invocation started by a scheduler that serializes invocations *)
FetchSerial(p) ==
    /\ \A q \in Procs : pc[q] = "idle"
    /\ \E ok \in BOOLEAN, store_env \in EnvVals, topic_env \in EnvVals :
          Fetch(p, ok, store_env, topic_env)
    /\ UNCHANGED hist

(* an invocation started whatever the others do *)
FetchAny(p) ==
    /\ runs < RaceRuns
    /\ \E ok \in BOOLEAN, store_env \in EnvVals, topic_env \in EnvVals :
          Fetch(p, ok, store_env, topic_env)
    /\ hist' = [hist EXCEPT !.overlapped = @ \/ \E q \in Procs : pc[q] # "idle"]

(* main, lines 64-74: read the cache, compute new_titles *)
Load(p) ==
    /\ pc[p] = "load"
    /\ LET seen == LoadCache(file)
       IN  /\ last_seen' = [last_seen EXCEPT ![p] = seen]
           /\ IF MembershipRaises(seen)
              THEN /\ raised' = [raised EXCEPT ![p] = TRUE]
                   /\ pc' = [pc EXCEPT ![p] = "done"]
                   /\ UNCHANGED new_titles
              ELSE /\ new_titles' = [new_titles EXCEPT ![p] = NewTitles(product_titles[p], seen)]
                   /\ pc' = [pc EXCEPT ![p] = AfterCompare(NewTitles(product_titles[p], seen))]
                   /\ UNCHANGED raised
    /\ UNCHANGED <<listing, file, topic, product_titles, idx, sent, fetched, wrote,
                   delivered, call, fileBefore, hist, runs, changes, monitorVars>>

(* main, lines 75-76: one pass of the for loop *)
Notify(p) ==
    /\ pc[p] = "notify"
    /\ idx[p] <= Len(new_titles[p])
    /\ \E outcome \in Deliveries :
          /\ call' = StoreSend(topic[p], outcome)
          /\ delivered' = [delivered EXCEPT ![p] = @ \/ call'.ret = "True"]
          /\ pc' = [pc EXCEPT ![p] = IF idx[p] = Len(new_titles[p])
                                     THEN AfterLoop(delivered'[p]) ELSE "notify"]
    /\ sent' = [sent EXCEPT ![p] = Append(@, StoreMessage(new_titles[p][idx[p]]))]
    /\ idx' = [idx EXCEPT ![p] = @ + 1]
    /\ UNCHANGED <<listing, file, topic, product_titles, last_seen, new_titles, fetched,
                   wrote, raised, fileBefore, hist, runs, changes, monitorVars>>

(* main, lines 78-82: the cache write; a failure leaves the file as it was
   (open failed) or truncated by open(..., "w") and not valid JSON *)
Write(p) ==
    /\ pc[p] = "write"
    /\ \/ /\ file' = CacheContent(product_titles[p], new_titles[p])
          /\ wrote' = [wrote EXCEPT ![p] = "ok"]
       \/ /\ file' \in {file, JInvalid}
          /\ wrote' = [wrote EXCEPT ![p] = "failed"]
    /\ pc' = [pc EXCEPT ![p] = "done"]
    /\ UNCHANGED <<listing, topic, product_titles, last_seen, new_titles, idx, sent,
                   fetched, raised, delivered, call, fileBefore, hist, runs, changes,
                   monitorVars>>

(* the process exits; what later runs are compared with is recorded *)
Exit(p) ==
    /\ pc[p] = "done"
    /\ pc' = [pc EXCEPT ![p] = "idle"]
    /\ fileBefore' = file
    /\ hist' = [hist EXCEPT
                  !.valid = fetched[p],
                  !.wrote = wrote[p],
                  !.sent = Titles(sent[p]),
                  !.notified = @ \cup Range(Titles(sent[p])),
                  !.undelivered =
                      IF wrote[p] = "ok" /\ ~delivered[p]
                      THEN @ \cup (Range(Titles(sent[p]))
                                     \cap Range(Take(product_titles[p], CacheLimit)))
                      ELSE @,
                  !.intact = @ /\ wrote[p] # "failed",
                  !.failed = @ \/ wrote[p] = "failed"]
    /\ topic' = [topic EXCEPT ![p] = NoneVal]
    /\ product_titles' = [product_titles EXCEPT ![p] = <<>>]
    /\ last_seen' = [last_seen EXCEPT ![p] = JArray(<<>>)]
    /\ new_titles' = [new_titles EXCEPT ![p] = <<>>]
    /\ idx' = [idx EXCEPT ![p] = 1]
    /\ sent' = [sent EXCEPT ![p] = <<>>]
    /\ fetched' = [fetched EXCEPT ![p] = FALSE]
    /\ wrote' = [wrote EXCEPT ![p] = "none"]
    /\ raised' = [raised EXCEPT ![p] = FALSE]
    /\ delivered' = [delivered EXCEPT ![p] = FALSE]
    /\ call' = NoCall
    /\ UNCHANGED <<listing, file, runs, changes, monitorVars>>

(* the store publishes another listing between two invocations *)
ListingChanges ==
    /\ \A q \in Procs : pc[q] = "idle"
    /\ changes < MaxChanges
    /\ changes' = changes + 1
    /\ listing' \in Listings \ {listing}
    /\ hist' = ResetHist(hist)
    /\ UNCHANGED <<file, pc, topic, product_titles, last_seen, new_titles, idx, sent,
                   fetched, wrote, raised, delivered, call, fileBefore, runs,
                   monitorVars>>

Next ==
    \/ \E p \in SerialProcs : FetchSerial(p)
    \/ \E p \in SerialProcs : Load(p)
    \/ \E p \in SerialProcs : Notify(p)
    \/ \E p \in SerialProcs : Write(p)
    \/ \E p \in SerialProcs : Exit(p)
    \/ ListingChanges

Spec == Init /\ [][Next]_vars

-----------------------------------------------------------------------------
(* monitor.py: main *)

InitMonitor ==
    /\ listing = <<>>
    /\ file = JAbsent
    /\ InitStore
    /\ call = NoCall
    /\ m_pc = "find"
    /\ \E state_env \in KeywordEnvVals, size_env \in KeywordEnvVals, topic_env \in EnvVals :
          m_env = [state |-> GetEnv(state_env, DefaultState),
                   size |-> GetEnv(size_env, DefaultSize),
                   topic |-> GetEnv(topic_env, NoneVal)]
    /\ m_coll = NoResponse
    /\ m_prod = NoResponse
    /\ m_url = NoUrl
    /\ m_available = "None"
    /\ m_sent = <<>>
    /\ m_raised = FALSE

(* main, lines 108-115 *)
MFind ==
    /\ m_pc = "find"
    /\ \E resp \in CollectionResponses :
          /\ m_coll' = resp
          /\ m_url' = FindProductPage(resp, m_env.state)
    /\ IF NotUrl(m_url')
       THEN /\ \E outcome \in Deliveries : call' = MonitorSend(m_env.topic, outcome)
            /\ m_sent' = Append(m_sent, PageMissingMessage(m_env.state))
            /\ m_pc' = "done"
       ELSE /\ m_pc' = "check"
            /\ UNCHANGED <<call, m_sent>>
    /\ UNCHANGED <<storeVars, m_env, m_prod, m_available, m_raised>>

(* main, lines 117-123 *)
MCheck ==
    /\ m_pc = "check"
    /\ \E resp \in ProductResponses :
          /\ m_prod' = resp
          /\ LET available == CheckVariantAvailable(resp, m_env.size)
             IN  IF available = "raise"
                 THEN /\ m_raised' = TRUE
                      /\ UNCHANGED <<call, m_sent, m_available>>
                 ELSE /\ m_available' = available
                      /\ \E outcome \in Deliveries : call' = MonitorSend(m_env.topic, outcome)
                      /\ m_sent' = Append(m_sent,
                             VariantMessage(available, m_env.state, m_env.size, m_url.url))
                      /\ UNCHANGED m_raised
    /\ m_pc' = "done"
    /\ UNCHANGED <<storeVars, m_env, m_coll, m_url>>

NextMonitor == MFind \/ MCheck

SpecMonitor == InitMonitor /\ [][NextMonitor]_vars

(* what the claim expects of one run, from the two responses *)
MatchingLinks ==
    {k \in 1..Len(m_coll.links) :
        IsSubstring(Lower(m_env.state), Lower(m_coll.links[k].text))}

MatchingVariants ==
    {k \in 1..Len(m_prod.variants) :
        /\ m_prod.variants[k].kind = "dict"
        /\ m_prod.variants[k].titleKind = "str"
        /\ IsSubstring(Lower(m_env.size), Lower(m_prod.variants[k].title))}

Least(S) == CHOOSE k \in S : \A j \in S : k <= j

(* the messages the claim allows; where it is silent (the first matching
   link has an empty href, the flag of the matching variant is absent or
   null) what the code sends is allowed *)
AllowedMessages ==
    IF ~m_coll.ok \/ MatchingLinks = {} \/ m_coll.links[Least(MatchingLinks)].href = <<>>
    THEN {PageMissingMessage(m_env.state)}
    ELSE IF m_prod.shape # "variants" \/ MatchingVariants = {}
         THEN {VariantMessage("None", m_env.state, m_env.size, m_url.url)}
         ELSE LET flag == m_prod.variants[Least(MatchingVariants)].available
              IN  {VariantMessage(f, m_env.state, m_env.size, m_url.url) :
                      f \in CASE flag = "True" -> {"True"}
                              [] flag = "null" -> {"None"}
                              [] OTHER -> {"False"}}

(* C7 (as claimed): main never raises and makes exactly one notification
   attempt: page missing when the collection GET fails or no link text
   contains the state keyword; variant missing when the product GET fails,
   product data is missing or no variant title contains the size keyword;
   otherwise available or sold out by the flag of the first matching variant *)
C7_OneOutcome ==
    m_pc = "done" =>
        /\ ~m_raised
        /\ Len(m_sent) = 1
        /\ m_sent[1] \in AllowedMessages

(* the part of C7 that the code keeps: a run that does not raise makes
   exactly one attempt, with the message of its case *)
C7_OutcomeUnlessRaised ==
    (m_pc = "done" /\ ~m_raised) =>
        (Len(m_sent) = 1 /\ m_sent[1] \in AllowedMessages)

(* C8 (as claimed): a delivery that fails, by a network error or by a non-2xx
   response, is logged to the error stream, is one POST and does not raise *)
C8_FailureLogged ==
    (call.made /\ Truthy(call.topic) /\ call.outcome \in {"http_error", "network_error"}) =>
        (call.stderr = "error" /\ call.posts = 1)

-----------------------------------------------------------------------------
(* Properties of store_monitor.py *)

Finished(p) == pc[p] = "done"

Occurrences(s, t) == Cardinality({k \in 1..Len(s) : s[k] = t})

NotIn(items, titles) ==
    SelectSeq(titles, LAMBDA t : \A k \in 1..Len(items) : items[k] # t)

MessagesFor(titles) == [k \in 1..Len(titles) |-> StoreMessage(titles[k])]

(* C1: a run that fetched `current` and read the snapshot `previous` sends
   exactly "New product added: t" for the elements t of current that are not
   equal to any element of previous, in current's order; a title occurring k
   times in current and not in previous is notified k times, a title of
   previous never *)
C1_NotifiesExactlyNew ==
    \A p \in Procs :
        (Finished(p) /\ fetched[p] /\ ~raised[p] /\ last_seen[p].kind = "array") =>
            /\ sent[p] = MessagesFor(NotIn(last_seen[p].items, product_titles[p]))
            /\ \A t \in Range(product_titles[p]) :
                  Occurrences(Titles(sent[p]), t) =
                      IF t \in Range(last_seen[p].items) THEN 0
                      ELSE Occurrences(product_titles[p], t)

C1_Witness ==
    \E p \in Procs :
        /\ Finished(p) /\ fetched[p] /\ last_seen[p].kind = "array"
        /\ \E t \in Range(product_titles[p]) : Occurrences(Titles(sent[p]), t) = 2
        /\ \E t \in Range(product_titles[p]) :
              t \in Range(last_seen[p].items) /\ Occurrences(Titles(sent[p]), t) = 0

(* C2: a run that immediately follows a completed run on the same unchanged
   listing of at most 50 titles, whose cache write did not fail, sends no
   notification and leaves the cache file as the first run left it *)
C2_Idempotent ==
    \A p \in Procs :
        (/\ Finished(p) /\ fetched[p]
         /\ hist.valid /\ hist.wrote # "failed"
         /\ Len(listing) <= CacheLimit) =>
            (sent[p] = <<>> /\ file = fileBefore)

C2_Witness ==
    \E p \in Procs :
        /\ Finished(p) /\ fetched[p]
        /\ hist.valid /\ hist.wrote = "ok" /\ hist.sent # <<>>
        /\ Len(listing) = CacheLimit
        /\ sent[p] = <<>> /\ file = JArray(listing)

(* C3: starting from an absent cache file the file never holds more than 50
   titles; a run that found a new title and whose write succeeded leaves
   exactly the first 50 titles it fetched, in order, and nothing of the old
   snapshot *)
C3_BoundedOverwrite ==
    /\ hist.fromAbsent =>
          /\ file.kind \in {"absent", "invalid", "array"}
          /\ Len(file.items) <= CacheLimit
    /\ \A p \in Procs :
          (Finished(p) /\ new_titles[p] # <<>> /\ wrote[p] # "failed") =>
              /\ wrote[p] = "ok"
              /\ file.kind = "array"
              /\ Len(file.items) = (IF Len(product_titles[p]) < CacheLimit
                                    THEN Len(product_titles[p]) ELSE CacheLimit)
              /\ \A k \in 1..Len(file.items) : file.items[k] = product_titles[p][k]

(* 60 titles against an absent cache: 60 notifications, the first 50 kept *)
C3_Witness ==
    \E p \in Procs :
        /\ Finished(p) /\ hist.fromAbsent /\ fileBefore = JAbsent
        /\ Len(product_titles[p]) = CacheLimit + Overflow
        /\ Len(sent[p]) = CacheLimit + Overflow
        /\ Len(file.items) = CacheLimit

(* C4: a run whose fetch fails, or whose listing is empty, or whose titles
   are all in the snapshot sends nothing and leaves the cache file as it was *)
C4_Frame ==
    \A p \in Procs :
        (/\ Finished(p)
         /\ \/ ~fetched[p]
            \/ product_titles[p] = <<>>
            \/ /\ ~raised[p]
               /\ \A k \in 1..Len(product_titles[p]) :
                     Contains(LoadCache(fileBefore), product_titles[p][k])) =>
            (sent[p] = <<>> /\ wrote[p] = "none" /\ file = fileBefore)

C4_Witness ==
    \E p \in Procs :
        /\ Finished(p) /\ fetched[p] /\ product_titles[p] # <<>>
        /\ fileBefore.kind = "array"
        /\ Len(fileBefore.items) > Len(product_titles[p])
        /\ sent[p] = <<>> /\ file = fileBefore

(* C5 (as claimed): whenever the cache file is missing, unreadable or not a
   JSON array of strings, the run does not raise, notifies every fetched
   title and then writes the first 50 fetched titles *)
C5_MalformedTreatedAsEmpty ==
    \A p \in Procs :
        (/\ Finished(p) /\ fetched[p] /\ product_titles[p] # <<>>
         /\ fileBefore.kind # "array") =>
            /\ ~raised[p]
            /\ Titles(sent[p]) = product_titles[p]
            /\ wrote[p] # "failed" => file = JArray(Take(product_titles[p], CacheLimit))

(* C6 (as claimed): a call of send_notification without a channel writes the
   message to standard output, makes no POST and returns a success signal *)
C6_NoChannelSucceeds ==
    (call.made /\ ~Truthy(call.topic)) =>
        (call.stdout /\ call.posts = 0 /\ call.ret # "False")

(* C10 (as claimed): a run that notified titles without a single delivery
   and wrote the cache keeps those of the first 50 from being notified by any
   later run on the unchanged listing; a run whose cache write failed is
   followed by a run that sends its notifications again *)
NotDeliveredNotRepeated ==
    \A p \in Procs : Range(Titles(sent[p])) \cap hist.undelivered = {}

WriteIgnoresDelivery ==
    \A p \in Procs :
        (Finished(p) /\ new_titles[p] # <<>> /\ ~delivered[p] /\ wrote[p] # "failed") =>
            (wrote[p] = "ok" /\ file = JArray(Take(product_titles[p], CacheLimit)))

FailedWriteRepeats ==
    \A p \in Procs :
        (Finished(p) /\ fetched[p] /\ hist.valid /\ hist.wrote = "failed") =>
            hist.sent = SelectSeq(Titles(sent[p]), LAMBDA t : t \in Range(hist.sent))

-----------------------------------------------------------------------------
(* Invocations that may overlap: nothing locks the cache file *)

InitRace == Init /\ Len(listing) <= RaceLen /\ Len(file.items) <= RaceLen

NextRace ==
    \/ \E p \in Procs : FetchAny(p)
    \/ \E p \in Procs : Load(p)
    \/ \E p \in Procs : Notify(p)
    \/ \E p \in Procs : Write(p)
    \/ \E p \in Procs : Exit(p)

SpecRace == InitRace /\ [][NextRace]_vars

NotifiedTitles(p) == Range(Titles(sent[p]))

(* some title has been notified by two different runs *)
NotifiedTwice ==
    \E p \in Procs :
        \/ NotifiedTitles(p) \cap hist.notified # {}
        \/ \E q \in Procs \ {p} : NotifiedTitles(p) \cap NotifiedTitles(q) # {}

SomeWriteFailed == hist.failed \/ \E p \in Procs : wrote[p] = "failed"

====
